---- MODULE Spec2Model ----
\* AutoRFCs (src/main.py): one invocation of check_for_new_pr fetches the open
\* pull requests of a repository, diffs them against the snapshot kept in
\* ../data/pull_requests.json, overwrites that file and tweets every added entry.
EXTENDS Integers, Sequences, FiniteSets, TLC

\* ---------------------------------------------------------------- bounds
MaxId == 3
PerPage == 2
MaxPostTime == 1
MaxOversleep == 1
MaxConcId == 1

\* ------------------------------------------------------ program constants
SleepSecs == 10
HttpOk == 200

Ids == 1..MaxId
Titles == {"A", "B"}
Statuses == {HttpOk, 500}
PostOutcomes == {"ok", "ValueError", "Exception"}
Procs == {1, 2}
SeqProcs == {1}

\* ------------------------------------------------------------ JSON values
\* The content of the cache file, and the Python values that are dumped to it:
\* no file, JSON null (Python None), or a JSON object (Python dict).
Absent == [kind |-> "absent"]
PyNone == [kind |-> "null"]
Dict(f) == [kind |-> "dict", val |-> f]
IsDict(v) == v.kind = "dict"
EmptyDict == << >>

\* ---------------------------------------------------------------- strings
\* Strings the program takes apart are sequences of one-character strings.
Digit == <<"0", "1", "2", "3", "4", "5", "6", "7", "8", "9">>
Root == <<"r", "o", "o", "t">>
Open == <<"[", "'">>
Close == <<"'", "]">>

RECURSIVE ToStr(_)
ToStr(n) ==
  IF n < 10 THEN <<Digit[n + 1]>>
  ELSE ToStr(n \div 10) \o <<Digit[(n % 10) + 1]>>

DigitRank(c) == CHOOSE i \in 1..10 : Digit[i] = c

RECURSIVE StrLess(_, _)
StrLess(a, b) ==
  IF a = << >> THEN b # << >>
  ELSE IF b = << >> THEN FALSE
  ELSE IF Head(a) = Head(b) THEN StrLess(Tail(a), Tail(b))
  ELSE DigitRank(Head(a)) < DigitRank(Head(b))

RECURSIVE SortKeys(_)
SortKeys(S) ==
  IF S = {} THEN << >>
  ELSE LET m == CHOOSE x \in S : \A y \in S \ {x} : StrLess(x, y)
       IN  <<m>> \o SortKeys(S \ {m})

RECURSIVE LStrip(_, _)
LStrip(s, chars) ==
  IF s # << >> /\ Head(s) \in chars THEN LStrip(Tail(s), chars) ELSE s

RECURSIVE RStrip(_, _)
RStrip(s, chars) ==
  IF s # << >> /\ s[Len(s)] \in chars
  THEN RStrip(SubSeq(s, 1, Len(s) - 1), chars)
  ELSE s

\* str.strip(chars): drops leading and trailing characters that are in chars.
Strip(s, chars) == RStrip(LStrip(s, chars), chars)

StartsWith(s, pat) == Len(s) >= Len(pat) /\ SubSeq(s, 1, Len(pat)) = pat

\* str.replace(pat, ""): drops every occurrence of pat, scanning left to right.
RECURSIVE Remove(_, _)
Remove(s, pat) ==
  IF s = << >> THEN << >>
  ELSE IF StartsWith(s, pat) THEN Remove(SubSeq(s, Len(pat) + 1, Len(s)), pat)
  ELSE <<Head(s)>> \o Remove(Tail(s), pat)

RangeOf(s) == {s[i] : i \in 1..Len(s)}

\* ------------------------------------------------------- upstream listing
\* The open pull requests of the repository: id -> current title. The other
\* fields of a pull request never change once it is opened.
Upstreams == UNION {[S -> Titles] : S \in SUBSET Ids}

\* One element of the JSON array the listing endpoint returns.
Item(id, title) ==
  [id |-> id, title |-> title, number |-> id, html_href |-> <<"pull", id>>,
   user_html_url |-> "user", created_at |-> <<"t", id>>]

\* GET /repos/{owner}/{repo}/pulls?state=open without page parameters: the
\* endpoint answers with its first page only, newest pull requests first.
FirstPage(up) ==
  {i \in DOMAIN up : Cardinality({j \in DOMAIN up : j > i}) < PerPage}

ResponseJson(up) == {Item(i, up[i]) : i \in FirstPage(up)}

Record(pr) ==
  [title |-> pr.title, number |-> pr.number, url |-> pr.html_href,
   author |-> pr.user_html_url, created_at |-> pr.created_at]

\* json.loads(json.dumps(prs, sort_keys=True)): the integer keys come back as
\* strings.
JsonRoundTrip(prs) ==
  [k \in {ToStr(i) : i \in DOMAIN prs} |->
     prs[CHOOSE i \in DOMAIN prs : ToStr(i) = k]]

pull_requests(status_code, up) ==
  IF status_code = HttpOk
  THEN LET body == ResponseJson(up)
           prs == [i \in {pr.id : pr \in body} |->
                     Record(CHOOSE pr \in body : pr.id = i)]
       IN  Dict(JsonRoundTrip(prs))
  ELSE PyNone

\* --------------------------------------------------------------- the cache
\* json.dump(data, cache, indent=4) into a file opened with 'w': the file now
\* holds data, whatever it held before.
save_data_to_cache_keepsFile(file, data) ==
  IF file.kind = "absent" THEN data ELSE file

save_data_to_cache(file, data) == data

load_data_from_cache_nullAsEmpty(file) ==
  IF file.kind = "null" THEN Dict(EmptyDict) ELSE file

load_data_from_cache(file) == file

\* ---------------------------------------------------------------- DeepDiff
Fields == {"title", "number", "url", "author", "created_at"}
FieldChars(f) ==
  CASE f = "title" -> <<"t", "i", "t", "l", "e">>
    [] f = "number" -> <<"n", "u", "m", "b", "e", "r">>
    [] f = "url" -> <<"u", "r", "l">>
    [] f = "author" -> <<"a", "u", "t", "h", "o", "r">>
    [] f = "created_at" -> <<"c", "r", "e", "a", "t", "e", "d", "_", "a", "t">>

Path(k) == Root \o Open \o k \o Close
FieldPath(k, f) == Path(k) \o Open \o FieldChars(f) \o Close

PathsOf(keys) == [i \in 1..Len(keys) |-> Path(keys[i])]

\* deepdiff.DeepDiff(t1, t2, ignore_order=True).to_json(), read back with
\* json.loads: a dict that has an entry for every non-empty kind of report.
\* The item reports are ordered sets, serialised as lists.
DeepDiff(t1, t2) ==
  IF t1.kind # t2.kind
  THEN [r \in {"type_changes"} |->
          [p \in {Root} |-> [old_type |-> t1.kind, new_type |-> t2.kind]]]
  ELSE IF ~IsDict(t1) THEN [r \in {} |-> r]
  ELSE LET a == t1.val
           b == t2.val
           added == PathsOf(SortKeys(DOMAIN b \ DOMAIN a))
           removed == PathsOf(SortKeys(DOMAIN a \ DOMAIN b))
           diffs == {kf \in (DOMAIN a \cap DOMAIN b) \X Fields :
                       a[kf[1]][kf[2]] # b[kf[1]][kf[2]]}
           changed == [p \in {FieldPath(kf[1], kf[2]) : kf \in diffs} |->
                         LET kf == CHOOSE x \in diffs :
                                     FieldPath(x[1], x[2]) = p
                         IN  [old_value |-> a[kf[1]][kf[2]],
                              new_value |-> b[kf[1]][kf[2]]]]
           reports ==
             (IF added # << >> THEN {"dictionary_item_added"} ELSE {})
             \cup (IF removed # << >> THEN {"dictionary_item_removed"} ELSE {})
             \cup (IF diffs # {} THEN {"values_changed"} ELSE {})
       IN  [r \in reports |->
              CASE r = "dictionary_item_added" -> added
                [] r = "dictionary_item_removed" -> removed
                [] r = "values_changed" -> changed]

\* get_cache_difference(filename, data): the diff and the file it leaves.
get_cache_difference_firstRunDiffsEmpty(file, data) ==
  IF file.kind = "absent"
  THEN [result |-> DeepDiff(Dict(EmptyDict), data),
        file |-> save_data_to_cache(file, data)]
  ELSE [result |-> DeepDiff(load_data_from_cache(file), data), file |-> file]

get_cache_difference_swapped(file, data) ==
  IF file.kind = "absent"
  THEN [result |-> [r \in {} |-> r], file |-> save_data_to_cache(file, data)]
  ELSE [result |-> DeepDiff(data, load_data_from_cache(file)), file |-> file]

get_cache_difference(file, data) ==
  IF file.kind = "absent"
  THEN [result |-> [r \in {} |-> r], file |-> save_data_to_cache(file, data)]
  ELSE [result |-> DeepDiff(load_data_from_cache(file), data), file |-> file]

\* ------------------------------------------------------- check_for_new_pr
\* 'added' in key, for the report names of DeepDiff.
HasAdded(key) ==
  key \in {"dictionary_item_added", "iterable_item_added", "set_item_added",
           "attribute_added"}

RECURSIVE Repeat(_, _)
Repeat(s, n) == IF n = 0 THEN << >> ELSE s \o Repeat(s, n - 1)

\* The loops of lines 110-114: every key of the result that contains 'added'
\* runs once over result['dictionary_item_added'] (KeyError if there is none).
ItemsToPublish_everyKey(result) ==
  LET keys == DOMAIN result
  IN  IF keys = {} THEN [err |-> FALSE, items |-> << >>]
      ELSE IF "dictionary_item_added" \notin DOMAIN result
      THEN [err |-> TRUE, items |-> << >>]
      ELSE [err |-> FALSE,
            items |-> Repeat(result["dictionary_item_added"], Cardinality(keys))]

ItemsToPublish(result) ==
  LET keys == {k \in DOMAIN result : HasAdded(k)}
  IN  IF keys = {} THEN [err |-> FALSE, items |-> << >>]
      ELSE IF "dictionary_item_added" \notin DOMAIN result
      THEN [err |-> TRUE, items |-> << >>]
      ELSE [err |-> FALSE,
            items |-> Repeat(result["dictionary_item_added"], Cardinality(keys))]

\* index.strip('root').replace("['", "").replace("']", "")
ParseIndex_noStrip(index) == Remove(Remove(index, Open), Close)

ParseIndex(index) ==
  Remove(Remove(Strip(index, RangeOf(Root)), Open), Close)

Tweet(data) ==
  [number |-> data.number, title |-> data.title, author |-> data.author,
   url |-> data.url]

\* post_tweet: both except clauses log and return None; nothing is raised.
post_tweet_onlyValueError(text, outcome) ==
  [ret |-> IF outcome = "ok" THEN "response" ELSE "None",
   raised |-> outcome = "Exception"]

post_tweet(text, outcome) ==
  [ret |-> IF outcome = "ok" THEN "response" ELSE "None", raised |-> FALSE]

\* time.sleep(10) suspends for at least 10 seconds.
sleep_noDelay(elapsed, over) == elapsed + over

sleep(elapsed, over) == elapsed + SleepSecs + over

\* ------------------------------------------------------------------- state
VARIABLES
  store,       \* content of ../data/pull_requests.json
  lastGood,    \* history: the snapshot of the latest successful fetch
  pc,          \* per invocation: the statement it is at
  upstream,    \* per invocation: the open pull requests when it fetched
  status,      \* per invocation: response.status_code
  fetched,     \* per invocation: pull_request_info
  result,      \* per invocation: result
  todo,        \* per invocation: the items its loops still have to visit
  attempts,    \* per invocation: the calls of post_tweet it made
  sincePost,   \* per invocation: time since its latest post_tweet began
  startStore,  \* history: the store when the invocation started
  prevGood,    \* history: lastGood when the invocation fetched
  announced,   \* history: the keys with a publish attempt that every
               \* successful fetch since that attempt has contained
  fresh,       \* history, per invocation: it has read the store for its
               \* diff and nothing has written the store since
  sameRead,    \* history, per invocation: the invocations whose read was
               \* still fresh when it read the store for its diff
  peers        \* history, per invocation: the invocations that have been
               \* running at some time during its run

vars ==
  <<store, lastGood, pc, upstream, status, fetched, result, todo, attempts,
    sincePost, startStore, prevGood, announced, fresh, sameRead, peers>>

NoResult == [r \in {} |-> r]

Init ==
  /\ store = Absent
  /\ lastGood = Absent
  /\ pc = [p \in Procs |-> "idle"]
  /\ upstream = [p \in Procs |-> << >>]
  /\ status = [p \in Procs |-> HttpOk]
  /\ fetched = [p \in Procs |-> PyNone]
  /\ result = [p \in Procs |-> NoResult]
  /\ todo = [p \in Procs |-> << >>]
  /\ attempts = [p \in Procs |-> << >>]
  /\ sincePost = [p \in Procs |-> 0]
  /\ startStore = [p \in Procs |-> Absent]
  /\ prevGood = [p \in Procs |-> Absent]
  /\ announced = {}
  /\ fresh = [p \in Procs |-> FALSE]
  /\ sameRead = [p \in Procs |-> {}]
  /\ peers = [p \in Procs |-> {}]

Returned(p) == pc[p] \in {"idle", "done", "error"}

\* History of a write to the store: no earlier read is fresh any more.
NoneFresh == [q \in Procs |-> FALSE]

\* The external scheduler starts check_for_new_pr (line 142).
StartRun(p) ==
  /\ Returned(p)
  /\ pc' = [pc EXCEPT ![p] = "fetch"]
  /\ upstream' = [upstream EXCEPT ![p] = << >>]
  /\ status' = [status EXCEPT ![p] = HttpOk]
  /\ fetched' = [fetched EXCEPT ![p] = PyNone]
  /\ result' = [result EXCEPT ![p] = NoResult]
  /\ todo' = [todo EXCEPT ![p] = << >>]
  /\ attempts' = [attempts EXCEPT ![p] = << >>]
  /\ sincePost' = [sincePost EXCEPT ![p] = 0]
  /\ startStore' = [startStore EXCEPT ![p] = store]
  /\ prevGood' = [prevGood EXCEPT ![p] = Absent]
  /\ fresh' = [fresh EXCEPT ![p] = FALSE]
  /\ sameRead' = [q \in Procs |-> IF q = p THEN {} ELSE sameRead[q] \ {p}]
  /\ peers' = [q \in Procs |->
                IF q = p THEN {r \in Procs \ {p} : ~Returned(r)}
                ELSE IF Returned(q) THEN peers[q] \ {p}
                ELSE peers[q] \cup {p}]
  /\ UNCHANGED <<store, lastGood, announced>>

\* Line 106: pull_request_info = pull_requests(owner, repo).
Fetch(p) ==
  /\ pc[p] = "fetch"
  /\ \E up \in Upstreams, code \in Statuses :
       LET info == pull_requests(code, up)
       IN  /\ upstream' = [upstream EXCEPT ![p] = up]
           /\ status' = [status EXCEPT ![p] = code]
           /\ fetched' = [fetched EXCEPT ![p] = info]
           /\ prevGood' = [prevGood EXCEPT ![p] = lastGood]
           /\ lastGood' = IF code = HttpOk THEN info ELSE lastGood
           /\ announced' = IF code = HttpOk
                            THEN announced \cap DOMAIN info.val
                            ELSE announced
  /\ pc' = [pc EXCEPT ![p] = "diff"]
  /\ UNCHANGED <<store, result, todo, attempts, sincePost, startStore, fresh,
                 sameRead, peers>>

\* Line 107: result = CacheManager.get_cache_difference(filename, data).
GetCacheDifference_afterSave(p) ==
  /\ pc[p] = "diff"
  /\ LET saved == save_data_to_cache(store, fetched[p])
         d == get_cache_difference(saved, fetched[p])
     IN  /\ result' = [result EXCEPT ![p] = d.result]
         /\ store' = d.file
  /\ fresh' = NoneFresh
  /\ pc' = [pc EXCEPT ![p] = "save"]
  /\ UNCHANGED <<lastGood, upstream, status, fetched, todo, attempts,
                 sincePost, startStore, prevGood, announced, sameRead, peers>>

GetCacheDifference(p) ==
  /\ pc[p] = "diff"
  /\ LET d == get_cache_difference(store, fetched[p])
     IN  /\ result' = [result EXCEPT ![p] = d.result]
         /\ store' = d.file
  /\ IF store = Absent
     THEN /\ fresh' = NoneFresh
          /\ UNCHANGED sameRead
     ELSE /\ fresh' = [fresh EXCEPT ![p] = TRUE]
          /\ sameRead' = [sameRead EXCEPT
                            ![p] = {q \in Procs \ {p} : fresh[q]}]
  /\ pc' = [pc EXCEPT ![p] = "save"]
  /\ UNCHANGED <<lastGood, upstream, status, fetched, todo, attempts,
                 sincePost, startStore, prevGood, announced, peers>>

\* Line 108: CacheManager.save_data_to_cache(filename, data), then the loop
\* headers of lines 110-114.
SaveDataToCache_skipsSave(p) ==
  /\ pc[p] = "save"
  /\ LET it == ItemsToPublish(result[p])
     IN  /\ todo' = [todo EXCEPT ![p] = it.items]
         /\ pc' = [pc EXCEPT ![p] = IF it.err THEN "error" ELSE "notify"]
  /\ UNCHANGED <<store, fresh, lastGood, upstream, status, fetched, result,
                 attempts, sincePost, startStore, prevGood, announced,
                 sameRead, peers>>

SaveDataToCache(p) ==
  /\ pc[p] = "save"
  /\ store' = save_data_to_cache(store, fetched[p])
  /\ fresh' = NoneFresh
  /\ LET it == ItemsToPublish(result[p])
     IN  /\ todo' = [todo EXCEPT ![p] = it.items]
         /\ pc' = [pc EXCEPT ![p] = IF it.err THEN "error" ELSE "notify"]
  /\ UNCHANGED <<lastGood, upstream, status, fetched, result, attempts,
                 sincePost, startStore, prevGood, announced, sameRead, peers>>

\* Lines 115-130: one iteration of the inner loop up to the return of
\* post_tweet. pull_request_info[index] raises when index is no key of it.
PostTweet(p) ==
  /\ pc[p] = "notify"
  /\ todo[p] # << >>
  /\ LET index == ParseIndex(Head(todo[p]))
     IN  IF ~IsDict(fetched[p]) \/ index \notin DOMAIN fetched[p].val
         THEN /\ pc' = [pc EXCEPT ![p] = "error"]
              /\ UNCHANGED <<attempts, sincePost, announced>>
         ELSE \E outcome \in PostOutcomes, took \in 0..MaxPostTime :
                LET tweet == Tweet(fetched[p].val[index])
                    r == post_tweet(tweet, outcome)
                IN  /\ attempts' =
                         [attempts EXCEPT ![p] =
                            Append(@, [key |-> index, text |-> tweet,
                                       ok |-> r.ret # "None"])]
                    /\ sincePost' = [sincePost EXCEPT ![p] = took]
                    /\ announced' = announced \cup {index}
                    /\ pc' = [pc EXCEPT ![p] =
                                IF r.raised THEN "error" ELSE "sleep"]
  /\ UNCHANGED <<store, lastGood, upstream, status, fetched, result, todo,
                 startStore, prevGood, fresh, sameRead, peers>>

\* Line 131: time.sleep(10), then on to the next item.
Sleep(p) ==
  /\ pc[p] = "sleep"
  /\ \E over \in 0..MaxOversleep :
       sincePost' = [sincePost EXCEPT ![p] = sleep(@, over)]
  /\ todo' = [todo EXCEPT ![p] = Tail(@)]
  /\ pc' = [pc EXCEPT ![p] = "notify"]
  /\ UNCHANGED <<store, lastGood, upstream, status, fetched, result,
                 attempts, startStore, prevGood, announced, fresh, sameRead,
                 peers>>

\* The loops are exhausted: check_for_new_pr returns.
Finish(p) ==
  /\ pc[p] = "notify"
  /\ todo[p] = << >>
  /\ pc' = [pc EXCEPT ![p] = "done"]
  /\ UNCHANGED <<store, lastGood, upstream, status, fetched, result, todo,
                 attempts, sincePost, startStore, prevGood, announced, fresh,
                 sameRead, peers>>

Step(p) ==
  \/ Fetch(p)
  \/ GetCacheDifference(p)
  \/ SaveDataToCache(p)
  \/ PostTweet(p)
  \/ Sleep(p)
  \/ Finish(p)

\* Invocations one at a time, as the scheduler is required to run them.
Next ==
  \E p \in SeqProcs :
    \/ StartRun(p)
    \/ Fetch(p)
    \/ GetCacheDifference(p)
    \/ SaveDataToCache(p)
    \/ PostTweet(p)
    \/ Sleep(p)
    \/ Finish(p)

Spec == Init /\ [][Next]_vars

\* Overlapping invocations: nothing keeps the scheduler from starting one
\* while another is running, and their statements interleave. Explored here:
\* any number of invocations one at a time, then one more that starts at any
\* moment, during the run of the latest of them or after it; pull requests
\* 1..MaxConcId, whose titles are not edited; calls that take no time beyond
\* the sleep.
ConcStartRun(p) ==
  /\ StartRun(p)
  /\ IF p \in SeqProcs
     THEN \A q \in Procs \ SeqProcs : pc[q] = "idle"
     ELSE pc[p] = "idle"

ConcFetch(p) ==
  /\ Fetch(p)
  /\ DOMAIN upstream'[p] \subseteq 1..MaxConcId
  /\ \A i \in DOMAIN upstream'[p] : upstream'[p][i] = "A"

ConcPostTweet(p) ==
  /\ PostTweet(p)
  /\ sincePost'[p] = 0

ConcSleep(p) ==
  /\ Sleep(p)
  /\ sincePost'[p] = sincePost[p] + SleepSecs

ConcNext ==
  \E p \in Procs :
    \/ ConcStartRun(p)
    \/ ConcFetch(p)
    \/ GetCacheDifference(p)
    \/ SaveDataToCache(p)
    \/ ConcPostTweet(p)
    \/ ConcSleep(p)
    \/ Finish(p)

ConcSpec == Init /\ [][ConcNext]_vars

\* ------------------------------------------------------------------ claims
AttemptedKeys(p) == {attempts[p][i].key : i \in 1..Len(attempts[p])}
Reported(r, name) == IF name \in DOMAIN r THEN RangeOf(r[name]) ELSE {}
Ended(p) == pc[p] = "done"

\* C1: a run whose fetch gets a non-success response leaves the persisted
\* snapshot as it found it (absent stays absent) and attempts no publish.
C1_FailedFetchLeavesStore ==
  \A p \in Procs :
    (Ended(p) /\ status[p] # HttpOk) =>
      (store = startStore[p] /\ attempts[p] = << >>)

\* C2: in sequential runs, every id of a successful fetch that was not in the
\* snapshot of the latest earlier successful fetch gets a publish attempt in
\* that run (the first successful fetch excepted).
C2_NewPRsPublished ==
  \A p \in Procs :
    (Ended(p) /\ status[p] = HttpOk /\ IsDict(prevGood[p])) =>
      (DOMAIN fetched[p].val \ DOMAIN prevGood[p].val) \subseteq AttemptedKeys(p)

\* C3: a run that starts with no persisted state attempts no publish, and
\* when it ends the store holds exactly the snapshot it fetched.
C3_FirstRunSilent ==
  \A p \in Procs :
    (startStore[p] = Absent /\ pc[p] # "idle") =>
      /\ attempts[p] = << >>
      /\ pc[p] # "error"
      /\ (Ended(p) /\ status[p] = HttpOk) => store = fetched[p]

C3_Witness ==
  \E p \in Procs :
    /\ startStore[p] = Absent
    /\ Ended(p)
    /\ status[p] = HttpOk
    /\ Cardinality(DOMAIN fetched[p].val) >= 2

\* C4: with a successful fetch and a persisted snapshot, the publish attempts
\* of the run are exactly one per id that is in the fetched snapshot and not in
\* the persisted one; removed and changed ids cause none.
C4_ExactlyAdded ==
  \A p \in Procs :
    (Ended(p) /\ status[p] = HttpOk /\ IsDict(startStore[p])) =>
      LET added == DOMAIN fetched[p].val \ DOMAIN startStore[p].val
      IN  /\ AttemptedKeys(p) = added
          /\ Len(attempts[p]) = Cardinality(added)

C4_Witness ==
  \E p \in Procs :
    /\ Ended(p) /\ status[p] = HttpOk /\ IsDict(startStore[p])
    /\ LET prev == startStore[p].val
           cur == fetched[p].val
       IN  /\ DOMAIN prev \ DOMAIN cur # {}
           /\ \E k \in DOMAIN prev \cap DOMAIN cur : prev[k] # cur[k]
           /\ DOMAIN cur \ DOMAIN prev # {}
    /\ Len(attempts[p]) = 1

\* C5: get_cache_difference reports a key as added iff it is only in current,
\* as removed iff it is only in previous, as changed iff it is in both with
\* different field values, and reports nothing iff the snapshots are equal.
C5_DiffClassifies ==
  \A p \in Procs :
    (pc[p] \in {"save", "notify", "sleep", "done"}
       /\ IsDict(startStore[p]) /\ IsDict(fetched[p])) =>
      LET prev == startStore[p].val
          cur == fetched[p].val
          r == result[p]
          changedPaths ==
            IF "values_changed" \in DOMAIN r THEN DOMAIN r["values_changed"]
            ELSE {}
      IN  /\ DOMAIN r \subseteq
               {"dictionary_item_added", "dictionary_item_removed",
                "values_changed"}
          /\ \A k \in DOMAIN prev \cup DOMAIN cur :
               /\ Path(k) \in Reported(r, "dictionary_item_added")
                    <=> k \in DOMAIN cur \ DOMAIN prev
               /\ Path(k) \in Reported(r, "dictionary_item_removed")
                    <=> k \in DOMAIN prev \ DOMAIN cur
               /\ (\E f \in Fields : FieldPath(k, f) \in changedPaths)
                    <=> (k \in DOMAIN prev \cap DOMAIN cur /\ prev[k] # cur[k])
          /\ (DOMAIN r = {}) <=> (prev = cur)

C5_Witness ==
  \E p \in Procs :
    /\ pc[p] = "save" /\ IsDict(startStore[p]) /\ IsDict(fetched[p])
    /\ DOMAIN result[p] =
         {"dictionary_item_added", "dictionary_item_removed", "values_changed"}

\* C6: a failed publish does not stop the run: whatever the outcomes of the
\* publishes, a run with k added entries ends with k publish attempts.
C6_FailureDoesNotAbort ==
  \A p \in Procs :
    (pc[p] \in {"done", "error"} /\ "dictionary_item_added" \in DOMAIN result[p])
      => Len(attempts[p]) = Len(result[p]["dictionary_item_added"])

C6_Witness ==
  \E p \in Procs :
    /\ Ended(p)
    /\ Len(attempts[p]) >= 2
    /\ ~attempts[p][1].ok
    /\ attempts[p][2].ok

\* C7: when a run with a successful fetch ends, the store holds the snapshot
\* fetched in that run, whatever the diff was and whatever the publishes did.
C7_StoreIsFetched ==
  \A p \in Procs :
    (Ended(p) /\ status[p] = HttpOk) => store = fetched[p]

C7_Witness ==
  \E p \in Procs :
    /\ Ended(p) /\ status[p] = HttpOk
    /\ IsDict(startStore[p]) /\ startStore[p] # fetched[p]
    /\ \E i \in 1..Len(attempts[p]) : ~attempts[p][i].ok

\* C8: on a successful fetch the snapshot returned by pull_requests contains
\* every pull request that is open upstream, also beyond one page.
C8_CompleteSnapshot ==
  \A p \in Procs :
    (pc[p] \notin {"idle", "fetch"} /\ status[p] = HttpOk) =>
      \A id \in DOMAIN upstream[p] : ToStr(id) \in DOMAIN fetched[p].val

\* C9: two consecutive publish attempts of a run are at least 10 time units
\* apart, whether the first succeeded or failed.
C9_MinDelay ==
  \A p \in Procs :
    (pc[p] = "notify" /\ attempts[p] # << >> /\ todo[p] # << >>) =>
      sincePost[p] >= 10

C9_Witness ==
  \E p \in Procs :
    /\ pc[p] = "notify" /\ attempts[p] # << >> /\ todo[p] # << >>
    /\ ~attempts[p][Len(attempts[p])].ok

\* C10: every run, started with the store absent or as an earlier run left
\* it, reaches its normal end without an error outcome, for every fetch
\* response and every combination of publish outcomes.
Running(p) == pc[p] \in {"fetch", "diff", "save", "notify", "sleep"}
Stage(l) ==
  CASE l = "fetch" -> 3
    [] l = "diff" -> 2
    [] l = "save" -> 1
    [] OTHER -> 0
\* A step brings the invocation closer to its end: an earlier statement is
\* left for good, or the loop has fewer items left, or the iteration moves on.
Advances(p) ==
  \/ Stage(pc'[p]) < Stage(pc[p])
  \/ /\ Stage(pc'[p]) = 0 /\ Stage(pc[p]) = 0
     /\ \/ Len(todo'[p]) < Len(todo[p])
        \/ /\ todo'[p] = todo[p]
           /\ pc[p] = "notify"
           /\ pc'[p] \in {"sleep", "done"}
C10_RunsEndNormally ==
  /\ [](\A p \in Procs : pc[p] # "error")
  /\ [][\A p \in Procs : Step(p) => Advances(p)]_vars

C10_Witness ==
  \E p \in Procs :
    /\ Ended(p)
    /\ status[p] # HttpOk
    /\ IsDict(startStore[p])
    /\ DOMAIN result[p] = {"type_changes"}

\* C11: within a run the steps go fetch, diff against the stored snapshot,
\* persist, publish: the diff reads the store before the run overwrites it, and
\* the store holds the new snapshot before the first publish attempt starts.
C11_StepOrder ==
  \A p \in Procs :
    /\ pc[p] = "fetch" => (fetched[p] = PyNone /\ store = startStore[p])
    /\ pc[p] \in {"fetch", "diff"} =>
         (DOMAIN result[p] = {} /\ store = startStore[p])
    /\ (pc[p] = "save" /\ startStore[p] # Absent) =>
         /\ store = startStore[p]
         /\ result[p] = DeepDiff(startStore[p], fetched[p])
    /\ pc[p] \in {"fetch", "diff", "save"} =>
         (attempts[p] = << >> /\ todo[p] = << >>)
    /\ (pc[p] \in {"notify", "sleep"} \/ attempts[p] # << >>) =>
         store = fetched[p]

C11_Witness ==
  \E p \in Procs :
    /\ pc[p] = "sleep"
    /\ Len(attempts[p]) = 1
    /\ IsDict(startStore[p])
    /\ startStore[p] # fetched[p]
    /\ store = fetched[p]

\* C13: after any sequence of runs, failed fetches included, the store is
\* absent or maps pull-request ids to records with the fields title, number,
\* url, author and created_at.
IsSnapshot(v) ==
  /\ IsDict(v)
  /\ \A k \in DOMAIN v.val : DOMAIN v.val[k] = Fields

C13_StoreIsSnapshot ==
  (\A p \in Procs : Returned(p)) => (store = Absent \/ IsSnapshot(store))

\* C12: over sequential runs with any mix of fetch and publish failures, a
\* pull request that has had a publish attempt and has been in every
\* successful fetch since gets no further attempt: a failed publish is not
\* retried and a fetch failure in between causes no second announcement.
C12_NoReannouncement ==
  [][\A p \in Procs :
       Len(attempts'[p]) > Len(attempts[p]) =>
         attempts'[p][Len(attempts'[p])].key \notin announced]_vars

C12_Witness ==
  \E p \in Procs :
    /\ Ended(p)
    /\ status[p] = HttpOk
    /\ startStore[p] = PyNone
    /\ \E k \in announced \cap DOMAIN fetched[p].val : k \notin AttemptedKeys(p)
    /\ DOMAIN fetched[p].val \ announced # {}

\* C14: overlapping invocations race on the store: an interleaving is
\* reachable in which two invocations diff against the same stored snapshot
\* (no write between their reads) and both publish the same added pull
\* request; invocations that did not overlap never do.
Overlapped(p, q) == q \in peers[p] \/ p \in peers[q]
DoublePublish(p, q) ==
  /\ p # q
  /\ p \in sameRead[q]
  /\ AttemptedKeys(p) \cap AttemptedKeys(q) # {}

C14_RaceNeedsOverlap ==
  \A p \in Procs, q \in Procs : DoublePublish(p, q) => Overlapped(p, q)

C14_Witness ==
  \E p \in Procs, q \in Procs :
    /\ DoublePublish(p, q)
    /\ Overlapped(p, q)
    /\ Ended(p) /\ Ended(q)
    /\ result[p]["dictionary_item_added"] = result[q]["dictionary_item_added"]
    /\ \E i \in 1..Len(attempts[p]), j \in 1..Len(attempts[q]) :
         /\ attempts[p][i].key = attempts[q][j].key
         /\ attempts[p][i].ok /\ attempts[q][j].ok

====
